---- MODULE Spec2Model ----
(***************************************************************************)
(* gollm: the provider registry of client.Client and the streaming decode  *)
(* loops of the four provider adapters (OpenAI, Anthropic, Ollama, Google  *)
(* Gemini).                                                                *)
(*                                                                         *)
(* SpecStream   : one open stream of one adapter, its decode goroutine,    *)
(*                the unbuffered channel and a consumer.                   *)
(* SpecRegistry : Client.initializeProvider / setDefaultProviderIfEmpty /  *)
(*                Close under the client's sync.RWMutex, with concurrent   *)
(*                callers.                                                 *)
(* SpecClose    : one Client.Close call at a time over a filled registry.  *)
(* SpecParse    : Client.parseProviderModel on bounded identifiers.        *)
(***************************************************************************)
EXTENDS Integers, Sequences, FiniteSets, TLC

\* ------------------------------------------------------------------ bounds
\* Backend framing units (lines, iterator items, end-of-input) per stream.
MaxEvents == 3
\* Concurrent callers of the client.
NumCallers == 2
\* Symbols per identifier given to parseProviderModel.
MaxIdLen == 4

\* ------------------------------------------------------------------ state
VARIABLES
    \* --- one stream
    adapter,           \* which adapter's GenerateCompletionStream runs
    spc,               \* decode goroutine: "idle","read","send","closed","rejected"
    fed,               \* framing units the decode loop has read so far
    unread,            \* units the backend sent that the loop never read
    sending,           \* the chunk blocked in `streamChan <- ...`
    afterSend,         \* what follows that send: "continue" or "return"
    recv,              \* chunks the consumer has received, in order
    accumulatedUsage,  \* var accumulatedUsage models.Usage
    accumulatedText,   \* var accumulatedText string (Anthropic)
    status,            \* the backend's answer to the request: "", "ok", "fail"
    dpc,               \* client's relay goroutine: "none","range","send","closed"
    resp,              \* the relay's loop variable `resp`
    debugStream,       \* chunks the caller has received from debugStream, in order
    \* --- the client
    phase,             \* NewClient: "init" (running), "ready" (returned c), "failed"
    rpc,               \* known provider -> position of its register goroutine
    env,               \* providers whose credential / base URL is set
    providers,         \* c.providers: name -> adapter instance (0 = no entry)
    defaultProvider,   \* c.defaultProvider ("" = none)
    mu,                \* c.mu: [writer |-> caller holding Lock or 0, readers |-> RLocks held]
    cpc,               \* caller -> position in its one call ("idle" before it)
    cid,               \* caller -> input.Model, the identifier it passed
    cname,             \* caller -> provider name it resolves
    cres,              \* caller -> adapter instance returned (0 = none/err)
    built,             \* name -> number of times its constructor ran
    kpc,               \* Close: name -> its close goroutine: "none","start","done"
    closes,            \* Close: name -> times p.Close() was invoked by this call
    errChan,           \* Close: names whose close error was sent to errChan, in order
    lastErr,           \* Close: the lastErr the last call returned ("" = nil, else the failed name)
    \* --- parseProviderModel on its own
    providerModel,     \* the argument
    parts,             \* what it returned
    \* --- one Client.GenerateCompletion call
    gpc,               \* "idle","adapter","count1","count2","returned"
    requests,          \* requests the adapter has sent to the backend for this call
    ret,               \* what GenerateCompletion returned
    \* --- two streams open on one adapter
    spos,              \* stream -> its decode goroutine: "idle","read","send","sendlast","closed"
    sfed,              \* stream -> units its loop has read
    sacc,              \* stream -> its goroutine's accumulatedUsage
    stext,             \* stream -> its goroutine's accumulatedText
    sout,              \* stream -> chunks its loop has sent or is sending
    \* --- the client's logger
    level,             \* defaultLogger.level
    logCalls           \* the log calls made so far

closeVars == <<kpc, closes, errChan, lastErr>>
streamVars == <<adapter, spc, fed, unread, sending, afterSend, recv, accumulatedUsage, accumulatedText,
               status, dpc, resp, debugStream>>
clientVars == <<phase, rpc, env, providers, defaultProvider, mu, cpc, cid, cname, cres, built,
               kpc, closes, errChan, lastErr>>
parseVars == <<providerModel, parts>>
genVars == <<gpc, requests, ret>>
pairVars == <<spos, sfed, sacc, stext, sout>>
logVars == <<level, logCalls>>
vars == <<streamVars, clientVars, parseVars, genVars, pairVars, logVars>>

\* ------------------------------------------------------------------ models
\* models.Usage
Usage(p, c, t) == [PromptTokens |-> p, CompletionTokens |-> c, TotalTokens |-> t]
ZeroUsage == Usage(0, 0, 0)

\* models.StreamingCompletionResponse. Usage is a *Usage: "nil" or "acc", the
\* address of the goroutine's accumulatedUsage. Error: "" is a nil error.
Chunk(text, done, err, usage) == [Text |-> text, Done |-> done, Error |-> err, Usage |-> usage]
ZeroChunk == Chunk(<<>>, FALSE, "", "nil")

\* What a consumer reads through a chunk's Usage pointer.
Deref(ch) == accumulatedUsage

\* One loop iteration's outcome: the chunk sent (if any), whether the loop
\* returns afterwards, and the locals it leaves.
Step(emit, chunk, stop, acc, text) ==
    [emit |-> emit, chunk |-> chunk, stop |-> stop, acc |-> acc, text |-> text]
Skip(acc, text) == Step(FALSE, ZeroChunk, FALSE, acc, text)
Return(acc, text) == Step(FALSE, ZeroChunk, TRUE, acc, text)

Adapters == {"openai", "anthropic", "ollama", "googlegemini"}
Deltas == {<<"a">>, <<"b">>}

\* ------------------------------------------------------------------ backend input
\* End of the backend input, seen by every line-based loop's ReadBytes:
\* io.EOF, or another read error (transport failure, cancelled context).
\* With io.EOF ReadBytes also returns the bytes it read after the last
\* newline: tail says what that unterminated last unit is, "none" (nothing
\* after the last newline), "done" (the backend's done signal or final
\* usage) or "text" (a unit with a text delta).
Tails == {"none", "done", "text"}
EndUnits == {[k |-> "eof", tail |-> t] : t \in Tails} \cup {[k |-> "readerr", tail |-> "none"]}

\* OpenAI SSE lines. k: "noise" (no "data: " prefix: blank line, comment),
\* "sentinel" (data: [DONE]), "badjson" (payload json.Unmarshal rejects),
\* "json". Of a json payload: choices is "absent" (no array), "empty", "notobj"
\* (choices[0] is no object) or "obj"; delta says whether choices[0].delta is an
\* object; content is delta.content when hasContent; finish says whether
\* finish_reason is a non-empty string; usage / usageMetadata are the objects
\* of those names when hasUsage / hasUM (an absent number reads as 0).
OAJson == [k |-> "json", choices |-> "absent", delta |-> FALSE, hasContent |-> FALSE,
           content |-> <<>>, finish |-> FALSE, hasUsage |-> FALSE, usage |-> ZeroUsage,
           hasUM |-> FALSE, um |-> ZeroUsage]
OAText(t, fin) == [OAJson EXCEPT !.choices = "obj", !.delta = TRUE, !.hasContent = TRUE,
                                 !.content = t, !.finish = fin]
OpenAIUnits ==
    { [OAJson EXCEPT !.k = "noise"], [OAJson EXCEPT !.k = "sentinel"],
      [OAJson EXCEPT !.k = "badjson"],
      OAJson,
      [OAJson EXCEPT !.hasUsage = TRUE, !.usage = Usage(3, 2, 0)],
      [OAJson EXCEPT !.choices = "empty"],
      [OAJson EXCEPT !.choices = "empty", !.hasUsage = TRUE, !.usage = Usage(3, 2, 5)],
      [OAJson EXCEPT !.choices = "notobj"],
      [OAJson EXCEPT !.choices = "obj"],
      [OAJson EXCEPT !.choices = "obj", !.delta = TRUE, !.finish = TRUE],
      [OAJson EXCEPT !.choices = "obj", !.delta = TRUE, !.finish = TRUE,
                     !.hasUsage = TRUE, !.usage = Usage(3, 2, 5)],
      OAText(<<"a">>, FALSE), OAText(<<"b">>, FALSE), OAText(<<"b">>, TRUE),
      OAText(<<>>, TRUE),
      [OAText(<<"a">>, FALSE) EXCEPT !.hasUM = TRUE, !.um = Usage(3, 2, 5)] }

\* Anthropic SSE lines. k: "noise", "badjson", "json"; type is the event's
\* "type" ("" when it is no string); hasField says whether the path the case
\* reads (message.usage.input_tokens, delta.text, usage.output_tokens) is there;
\* tokens / text is its value.
ANJson == [k |-> "json", type |-> "", hasField |-> FALSE, tokens |-> 0, text |-> <<>>]
ANEvent(type) == [ANJson EXCEPT !.type = type]
AnthropicUnits ==
    { [ANJson EXCEPT !.k = "noise"], [ANJson EXCEPT !.k = "badjson"],
      ANJson, ANEvent("ping"),
      ANEvent("message_start"),
      [ANEvent("message_start") EXCEPT !.hasField = TRUE, !.tokens = 3],
      ANEvent("content_block_delta"),
      [ANEvent("content_block_delta") EXCEPT !.hasField = TRUE, !.text = <<"a">>],
      [ANEvent("content_block_delta") EXCEPT !.hasField = TRUE, !.text = <<"b">>],
      ANEvent("message_delta"),
      [ANEvent("message_delta") EXCEPT !.hasField = TRUE, !.tokens = 2],
      ANEvent("message_stop") }

\* Ollama NDJSON lines. k: "noise" (a blank line), "badjson", "json"; response
\* is the "response" string when hasResponse; done is the "done" boolean
\* (absent reads as false); prompt_eval_count / eval_count (absent reads as 0).
OLJson == [k |-> "json", hasResponse |-> FALSE, response |-> <<>>, done |-> FALSE,
           prompt_eval_count |-> 0, eval_count |-> 0]
OLLine(r, d, p, c) == [OLJson EXCEPT !.hasResponse = TRUE, !.response = r, !.done = d,
                                     !.prompt_eval_count = p, !.eval_count = c]
OllamaUnits ==
    { [OLJson EXCEPT !.k = "noise"], [OLJson EXCEPT !.k = "badjson"],
      OLJson,
      [OLJson EXCEPT !.done = TRUE, !.prompt_eval_count = 3, !.eval_count = 2] }
    \cup { OLLine(r, d, n[1], n[2]) :
             r \in Deltas \cup {<<>>}, d \in BOOLEAN, n \in {<<0, 0>>, <<3, 2>>} }

\* Gemini iterator results. k: "iterdone" (iterator.Done), "itererr" (another
\* error of iter.Next), "item"; parts is "none" (no candidate or no part),
\* "other" (Parts[0] is no genai.Text) or "text" with its text.
GMItem == [k |-> "item", parts |-> "none", text |-> <<>>]
GeminiUnits ==
    { [GMItem EXCEPT !.k = "iterdone"], [GMItem EXCEPT !.k = "itererr"],
      GMItem, [GMItem EXCEPT !.parts = "other"],
      [GMItem EXCEPT !.parts = "text"] }
    \cup { [GMItem EXCEPT !.parts = "text", !.text = t] : t \in Deltas }

\* What the backend of adapter a may deliver next.
Units(a) ==
    CASE a = "openai" -> OpenAIUnits \cup EndUnits
      [] a = "anthropic" -> AnthropicUnits \cup EndUnits
      [] a = "ollama" -> OllamaUnits \cup EndUnits
      [] OTHER -> GeminiUnits

\* ------------------------------------------------------------------ decode loops
\* Each operator is one iteration of an adapter's `for` loop on the unit ev
\* that ReadBytes / iter.Next returned, with the locals acc (accumulatedUsage)
\* and text (accumulatedText) as they stand.

\* Mutant: the bytes returned with io.EOF are decoded as a last unit.
ReadFailure_DecodesTail(ev, acc, text) ==
    IF ev.k = "eof"
    THEN IF ev.tail = "none" THEN Return(acc, text)
         ELSE Step(TRUE, Chunk(<<>>, ev.tail = "done", "", "acc"), TRUE, acc, text)
    ELSE Step(TRUE, Chunk(<<>>, FALSE, "read", "nil"), TRUE, acc, text)

\* ReadBytes returned an error: io.EOF returns at once, without looking at
\* the bytes returned with it; any other error is sent as an error chunk and
\* the loop returns.
ReadFailure(ev, acc, text) ==
    IF ev.k = "eof"
    THEN Return(acc, text)
    ELSE Step(TRUE, Chunk(<<>>, FALSE, "read", "nil"), TRUE, acc, text)

\* The "final usage chunk" branches (choices no array, or an empty array).
OpenAIUsageOnly(ev, acc, text) ==
    IF ev.hasUsage
    THEN Step(TRUE, Chunk(<<>>, TRUE, "", "acc"), TRUE, ev.usage, text)
    ELSE Skip(acc, text)

\* Mutant: the loop does not return after the chunk it marked Done.
OpenAIContent_NoReturn(ev, acc, text) ==
    LET acc2 == IF ev.hasUM THEN ev.um ELSE acc
        ptr == IF ev.finish \/ ev.hasUM THEN "acc" ELSE "nil"
    IN  Step(TRUE, Chunk(ev.content, ev.finish, "", ptr), FALSE, acc2, text)

\* A choice whose delta.content is a string.
OpenAIContent(ev, acc, text) ==
    LET acc2 == IF ev.hasUM THEN ev.um ELSE acc
        ptr == IF ev.finish \/ ev.hasUM THEN "acc" ELSE "nil"
    IN  Step(TRUE, Chunk(ev.content, ev.finish, "", ptr), ev.finish, acc2, text)

OpenAIDecode(ev, acc, text) ==
    CASE ev.k \in {"eof", "readerr"} -> ReadFailure(ev, acc, text)
      [] ev.k = "noise" -> Skip(acc, text)
      [] ev.k = "sentinel" -> Step(TRUE, Chunk(<<>>, TRUE, "", "acc"), TRUE, acc, text)
      [] ev.k = "badjson" -> Step(TRUE, Chunk(<<>>, FALSE, "parse", "nil"), FALSE, acc, text)
      [] OTHER ->
           CASE ev.choices \in {"absent", "empty"} -> OpenAIUsageOnly(ev, acc, text)
             [] ev.choices = "notobj" ->
                  Step(TRUE, Chunk(<<>>, FALSE, "choice", "nil"), FALSE, acc, text)
             [] ~ev.delta ->
                  Step(TRUE, Chunk(<<>>, FALSE, "delta", "nil"), FALSE, acc, text)
             [] ev.hasContent -> OpenAIContent(ev, acc, text)
             [] OTHER -> Skip(acc, text)

AnthropicDecode(ev, acc, text) ==
    CASE ev.k \in {"eof", "readerr"} -> ReadFailure(ev, acc, text)
      [] ev.k = "noise" -> Skip(acc, text)
      [] ev.k = "badjson" -> Step(TRUE, Chunk(<<>>, FALSE, "parse", "nil"), FALSE, acc, text)
      [] OTHER ->
           CASE ev.type = "message_start" ->
                  IF ev.hasField
                  THEN Skip([acc EXCEPT !.PromptTokens = ev.tokens], text)
                  ELSE Skip(acc, text)
             [] ev.type = "content_block_delta" ->
                  IF ev.hasField
                  THEN Step(TRUE, Chunk(ev.text, FALSE, "", "nil"), FALSE, acc, text \o ev.text)
                  ELSE Skip(acc, text)
             [] ev.type = "message_delta" ->
                  IF ev.hasField
                  THEN Skip([acc EXCEPT !.CompletionTokens = ev.tokens,
                                        !.TotalTokens = acc.PromptTokens + ev.tokens], text)
                  ELSE Skip(acc, text)
             [] ev.type = "message_stop" ->
                  Step(TRUE, Chunk(text, TRUE, "", "acc"), TRUE, acc, text)
             [] OTHER -> Skip(acc, text)

\* Mutant: the total is not recomputed from the two counts.
OllamaUsage_StaleTotal(ev, acc) == Usage(ev.prompt_eval_count, ev.eval_count, acc.TotalTokens)

\* accumulatedUsage after a line with a response: both counts are taken from
\* the line (0 when absent) and the total is their sum.
OllamaUsage(ev, acc) ==
    Usage(ev.prompt_eval_count, ev.eval_count, ev.prompt_eval_count + ev.eval_count)

OllamaDecode(ev, acc, text) ==
    CASE ev.k \in {"eof", "readerr"} -> ReadFailure(ev, acc, text)
      [] ev.k \in {"noise", "badjson"} ->
           Step(TRUE, Chunk(<<>>, FALSE, "parse", "nil"), FALSE, acc, text)
      [] OTHER ->
           IF ev.hasResponse
           THEN Step(TRUE, Chunk(ev.response, ev.done, "", "acc"), ev.done,
                     OllamaUsage(ev, acc), text)
           ELSE Skip(acc, text)

GeminiDecode(ev, acc, text) ==
    CASE ev.k = "iterdone" -> Step(TRUE, Chunk(<<>>, TRUE, "", "nil"), TRUE, acc, text)
      [] ev.k = "itererr" -> Step(TRUE, Chunk(<<>>, FALSE, "read", "nil"), TRUE, acc, text)
      [] ev.parts = "none" -> Skip(acc, text)
      [] ev.parts = "other" -> Step(TRUE, Chunk(<<>>, FALSE, "type", "nil"), TRUE, acc, text)
      [] OTHER -> Step(TRUE, Chunk(ev.text, FALSE, "", "nil"), FALSE, acc, text)

Decode(a, ev, acc, text) ==
    CASE a = "openai" -> OpenAIDecode(ev, acc, text)
      [] a = "anthropic" -> AnthropicDecode(ev, acc, text)
      [] a = "ollama" -> OllamaDecode(ev, acc, text)
      [] OTHER -> GeminiDecode(ev, acc, text)

\* ------------------------------------------------------------------ one stream
\* Mutant: the relay forwards the text only.
Relay_TextOnly(ch) == [ZeroChunk EXCEPT !.Text = ch.Text]

\* What the relay puts on debugStream for a chunk it received: the value of
\* its loop variable, unchanged (the Debugf call only formats it).
Relay(ch) == ch

StreamIdle ==
    /\ adapter = "" /\ spc = "idle" /\ fed = <<>> /\ unread = <<>> /\ sending = ZeroChunk
    /\ afterSend = "continue" /\ recv = <<>>
    /\ accumulatedUsage = ZeroUsage /\ accumulatedText = <<>>
    /\ status = "" /\ dpc = "none" /\ resp = ZeroChunk /\ debugStream = <<>>

\* The adapter call returned a nil error: the HTTP adapters check the status
\* code before they start the goroutine; Gemini's call has no error return.
Accepts(a, statusOK) == statusOK \/ a = "googlegemini"

\* Client.GenerateCompletionStream from p.GenerateCompletionStream to its
\* return. The adapter call: the three HTTP adapters return an error when the
\* status is not 200 and otherwise make the channel and start the goroutine;
\* Gemini makes the iterator and always starts the goroutine. The client
\* returns the adapter's error, or makes debugStream and starts the relay.
Open(a, statusOK) ==
    /\ spc = "idle"
    /\ adapter' = a
    /\ status' = IF statusOK THEN "ok" ELSE "fail"
    /\ spc' = IF Accepts(a, statusOK) THEN "read" ELSE "rejected"
    /\ dpc' = IF Accepts(a, statusOK) THEN "range" ELSE "none"
    /\ UNCHANGED <<fed, unread, sending, afterSend, recv, accumulatedUsage, accumulatedText,
                   resp, debugStream>>

\* Mutant: a send that does not wait for the receiver and drops the chunk.
SendStatement_NonBlocking(stop) == IF stop THEN "closed" ELSE "read"

\* `streamChan <- chunk` on the unbuffered channel made by
\* make(chan models.StreamingCompletionResponse): the goroutine waits in the
\* send until a receiver takes the chunk.
SendStatement(stop) == "send"

\* One iteration of the decode loop: read the next unit, handle it, and either
\* loop, block in a send, or return (the deferred close(streamChan) runs).
Iterate(ev) ==
    /\ spc = "read"
    /\ Len(fed) < MaxEvents
    /\ status = "fail" => ev.k = "itererr"
    /\ LET r == Decode(adapter, ev, accumulatedUsage, accumulatedText)
       IN  /\ fed' = Append(fed, ev)
           /\ accumulatedUsage' = r.acc
           /\ accumulatedText' = r.text
           /\ IF r.emit
              THEN /\ spc' = SendStatement(r.stop)
                   /\ sending' = r.chunk
                   /\ afterSend' = IF r.stop THEN "return" ELSE "continue"
              ELSE /\ spc' = IF r.stop THEN "closed" ELSE "read"
                   /\ UNCHANGED <<sending, afterSend>>
    /\ UNCHANGED <<adapter, unread, recv, status, dpc, resp, debugStream>>

\* The consumer of the adapter's unbuffered channel, the relay's
\* `for resp := range stream`, receives: the blocked send completes and the
\* decode goroutine goes on, or returns and closes the channel; the relay
\* goes to its own send `debugStream <- resp`.
Receive ==
    /\ spc = "send"
    /\ dpc = "range"
    /\ recv' = Append(recv, sending)
    /\ spc' = IF afterSend = "return" THEN "closed" ELSE "read"
    /\ resp' = Relay(sending)
    /\ dpc' = "send"
    /\ UNCHANGED <<adapter, fed, unread, sending, afterSend, accumulatedUsage, accumulatedText,
                   status, debugStream>>

\* The caller receives from debugStream: the relay's send completes and it
\* goes back to `range stream`.
CallerReceive ==
    /\ dpc = "send"
    /\ debugStream' = Append(debugStream, resp)
    /\ dpc' = "range"
    /\ UNCHANGED <<adapter, spc, fed, unread, sending, afterSend, recv, accumulatedUsage,
                   accumulatedText, status, resp>>

\* `range stream` ends because the adapter closed its channel: the relay
\* returns and its deferred close(debugStream) runs.
RelayClose ==
    /\ dpc = "range"
    /\ spc = "closed"
    /\ dpc' = "closed"
    /\ UNCHANGED <<adapter, spc, fed, unread, sending, afterSend, recv, accumulatedUsage,
                   accumulatedText, status, resp, debugStream>>

\* The loop has returned or will return after its pending send: it reads no
\* further unit.
LoopOver == spc = "closed" \/ (spc = "send" /\ afterSend = "return")

\* The backend goes on sending after the loop has stopped reading: the
\* deferred resp.Body.Close() drops what it sent.
Drop(ev) ==
    /\ LoopOver
    /\ adapter # "googlegemini"
    /\ fed[Len(fed)].k \notin {"eof", "readerr"}
    /\ ev.k \notin {"eof", "readerr"}
    /\ Len(fed) + Len(unread) < MaxEvents
    /\ unread' = Append(unread, ev)
    /\ UNCHANGED <<adapter, spc, fed, sending, afterSend, recv, accumulatedUsage, accumulatedText,
                   status, dpc, resp, debugStream>>

StreamNext ==
    \/ \E a \in Adapters, ok \in BOOLEAN : Open(a, ok) /\ UNCHANGED <<clientVars, parseVars, genVars, pairVars, logVars>>
    \/ \E ev \in Units(adapter) : Iterate(ev) /\ UNCHANGED <<clientVars, parseVars, genVars, pairVars, logVars>>
    \/ Receive /\ UNCHANGED <<clientVars, parseVars, genVars, pairVars, logVars>>
    \/ CallerReceive /\ UNCHANGED <<clientVars, parseVars, genVars, pairVars, logVars>>
    \/ RelayClose /\ UNCHANGED <<clientVars, parseVars, genVars, pairVars, logVars>>
    \/ \E ev \in Units(adapter) : Drop(ev) /\ UNCHANGED <<clientVars, parseVars, genVars, pairVars, logVars>>

\* ------------------------------------------------------------------ the client
\* The providers NewClient and initializeProvider know how to construct, and
\* two names they do not (one of them the empty name).
Known == {"openai", "anthropic", "googlegemini", "ollama"}
Names == Known \cup {"other", ""}
Callers == 1..NumCallers

NoResult == [p |-> 0, err |-> ""]

\* An identifier is a sequence of symbols: "/" or a symbol that stands for a
\* run of characters without "/" (a provider name, a model name).
Slash == "/"

\* strings.Index(s, "/") + 1: the position of the first "/", 0 without one.
RECURSIVE Index(_)
Index(s) ==
    IF s = <<>> THEN 0
    ELSE IF Head(s) = Slash THEN 1
    ELSE IF Index(Tail(s)) = 0 THEN 0 ELSE Index(Tail(s)) + 1

\* Mutant: the identifier is split at its last "/".
RECURSIVE SplitN_AtLast(_)
SplitN_AtLast(s) ==
    IF Index(s) = 0 THEN <<s>>
    ELSE LET rest == SubSeq(s, Index(s) + 1, Len(s))
         IN  IF Index(rest) = 0 THEN <<SubSeq(s, 1, Index(s) - 1), rest>>
             ELSE LET r == SplitN_AtLast(rest)
                  IN  <<SubSeq(s, 1, Index(s)) \o r[1], r[2]>>

\* strings.SplitN(s, "/", 2): s alone without a "/", else what stands before
\* the first "/" and all that stands after it.
SplitN(s) ==
    IF Index(s) = 0 THEN <<s>>
    ELSE <<SubSeq(s, 1, Index(s) - 1), SubSeq(s, Index(s) + 1, Len(s))>>

\* Mutant: an identifier without "/" is taken as a provider with an empty model.
ParseResult_Lenient(q) ==
    IF Len(q) # 2 THEN [provider |-> q[1], model |-> <<>>, err |-> ""]
    ELSE [provider |-> q[1], model |-> q[2], err |-> ""]

\* What parseProviderModel returns for the split q of its argument.
ParseResult(q) ==
    IF Len(q) # 2 THEN [provider |-> <<>>, model |-> <<>>, err |-> "format"]
    ELSE [provider |-> q[1], model |-> q[2], err |-> ""]

parseProviderModel(id) == ParseResult(SplitN(id))

\* The provider name a run of symbols spells.
NameOf(run) == IF run = <<>> THEN "" ELSE run[1]

\* The identifiers callers pass: "<name>/m" for a provider whose constructor
\* cannot fail, for the one whose constructor can, and for an unknown name;
\* one without "/"; one with an empty provider.
CallIds ==
    {<<n, Slash, "m">> : n \in {"openai", "googlegemini", "other"}}
       \cup {<<"openai">>, <<Slash, "m">>}

\* The provider names a call can make initializeProvider construct.
Resolvable ==
    {NameOf(parseProviderModel(id).provider) : id \in {i \in CallIds : Index(i) # 0}} \cap Known

\* Mutant: initializeProvider and its callees run without mutual exclusion.
CanLock_NoExclusion == TRUE

\* c.mu.Lock() can return: no writer and no reader holds the mutex.
CanLock == mu.writer = 0 /\ mu.readers = 0
\* Mutant: readers do not wait for the writer.
CanRLock_NoExclusion == TRUE

\* c.mu.RLock() can return: no writer holds the mutex.
CanRLock == mu.writer = 0

\* Mutant: the lookup never finds an entry.
Registered_Never(name) == FALSE

\* The map lookup `p, ok := c.providers[providerName]`.
Registered(name) == providers[name] # 0

\* Mutant: the default is overwritten by every registration.
SetDefaultIfEmpty_Always(name) == name

\* The body of setDefaultProviderIfEmpty, between its Lock and Unlock.
SetDefaultIfEmpty(name) == IF defaultProvider = "" THEN name ELSE defaultProvider

\* A goroutine that calls setDefaultProviderIfEmpty: the register goroutine of a
\* known provider, or a caller inside initializeProvider.
Task(n) == [kind |-> "task", name |-> n, id |-> 0]
Caller(t) == [kind |-> "caller", name |-> "", id |-> t]
Waiters == {Task(n) : n \in Known} \cup {Caller(t) : t \in Callers}

\* No Close call has run: its locals do not exist yet.
CloseIdle ==
    /\ kpc = [n \in Names |-> "none"] /\ closes = [n \in Names |-> 0]
    /\ errChan = <<>> /\ lastErr = ""

ClientIdle ==
    /\ phase = "ready" /\ rpc = [n \in Known |-> "done"] /\ env = {}
    /\ providers = [n \in Names |-> 0] /\ defaultProvider = ""
    /\ mu = [writer |-> 0, readers |-> 0]
    /\ cpc = [t \in Callers |-> "idle"] /\ cid = [t \in Callers |-> <<>>]
    /\ cname = [t \in Callers |-> ""]
    /\ cres = [t \in Callers |-> NoResult] /\ built = [n \in Names |-> 0]
    /\ CloseIdle

\* NewClient after `c := &Client{...}` and the options: an empty map, the
\* default provider an option may have set, four register goroutines started.
ClientInit ==
    /\ phase = "init" /\ rpc = [n \in Known |-> "start"]
    /\ env \in SUBSET Known
    /\ providers = [n \in Names |-> 0]
    /\ defaultProvider \in {"", "openai"}
    /\ mu = [writer |-> 0, readers |-> 0]
    /\ cpc = [t \in Callers |-> "idle"] /\ cid = [t \in Callers |-> <<>>]
    /\ cname = [t \in Callers |-> ""]
    /\ cres = [t \in Callers |-> NoResult] /\ built = [n \in Names |-> 0]
    /\ CloseIdle

\* Mutant: a provider is constructed whether or not its credential is set.
CredentialPresent_Always(n) == TRUE

\* `os.Getenv("<X>_API_KEY") != ""` (for Ollama, OLLAMA_BASE_URL).
CredentialPresent(n) == n \in env

\* A constructor that can fail although its credential is present: only
\* NewGoogleGeminiProvider, when genai.NewClient fails; the other three fail
\* only without their environment variable.
CanFail(n) == n = "googlegemini"

\* register<X>Provider up to RegisterProvider: without the credential it is
\* done; the constructor's error goes to errChan (buffered, never blocks).
RegisterStart(n, ok) ==
    /\ rpc[n] = "start"
    /\ ok \/ CanFail(n)
    /\ IF ~CredentialPresent(n)
       THEN rpc' = [rpc EXCEPT ![n] = "done"] /\ UNCHANGED built
       ELSE IF ok
            THEN rpc' = [rpc EXCEPT ![n] = "register"]
                 /\ built' = [built EXCEPT ![n] = @ + 1]
            ELSE rpc' = [rpc EXCEPT ![n] = "failed"] /\ UNCHANGED built
    /\ UNCHANGED <<phase, env, providers, defaultProvider, mu, cpc, cid, cname, cres, closeVars>>

\* c.RegisterProvider(name, provider): Lock, store, Unlock.
RegisterProvider(n) ==
    /\ rpc[n] = "register"
    /\ CanLock
    /\ providers' = [providers EXCEPT ![n] = built[n]]
    /\ rpc' = [rpc EXCEPT ![n] = "setDefault"]
    /\ UNCHANGED <<phase, env, defaultProvider, mu, cpc, cid, cname, cres, built, closeVars>>

\* c.setDefaultProviderIfEmpty(name): Lock, set if empty, Unlock, and what its
\* caller does next without blocking: the register goroutine ends; a caller of
\* initializeProvider returns the provider and its deferred Unlock runs.
SetDefaultProviderIfEmpty(w) ==
    /\ CanLock
    /\ IF w.kind = "task"
       THEN /\ rpc[w.name] = "setDefault"
            /\ defaultProvider' = SetDefaultIfEmpty(w.name)
            /\ rpc' = [rpc EXCEPT ![w.name] = "done"]
            /\ UNCHANGED <<mu, cpc, cres>>
       ELSE /\ cpc[w.id] = "setDefault"
            /\ defaultProvider' = SetDefaultIfEmpty(cname[w.id])
            /\ cres' = [cres EXCEPT ![w.id] = [p |-> providers[cname[w.id]], err |-> ""]]
            /\ cpc' = [cpc EXCEPT ![w.id] = "returned"]
            /\ mu' = [mu EXCEPT !.writer = 0]
            /\ UNCHANGED rpc
    /\ UNCHANGED <<phase, env, providers, cid, cname, built, closeVars>>

\* NewClient's `for err := range errChan`: the first error makes it return the
\* error (no client); it returns the client when errChan is closed, that is
\* after wg.Wait() saw all four goroutines done.
NewClientFails ==
    /\ phase = "init"
    /\ \E n \in Known : rpc[n] = "failed"
    /\ phase' = "failed"
    /\ UNCHANGED <<rpc, env, providers, defaultProvider, mu, cpc, cid, cname, cres, built, closeVars>>

NewClientReturns ==
    /\ phase = "init"
    /\ \A n \in Known : rpc[n] = "done"
    /\ phase' = "ready"
    /\ UNCHANGED <<rpc, env, providers, defaultProvider, mu, cpc, cid, cname, cres, built, closeVars>>

\* The host sets a credential after NewClient returned (os.Setenv): the one way
\* a known provider can be unregistered while its credential is present. Only
\* the credential of a provider that a call resolves is read again.
SetEnv(n) ==
    /\ phase = "ready"
    /\ n \notin env
    /\ n \in Resolvable
    /\ env' = env \cup {n}
    /\ UNCHANGED <<phase, rpc, providers, defaultProvider, mu, cpc, cid, cname, cres, built, closeVars>>

\* GenerateCompletion / GenerateCompletionStream up to initializeProvider:
\* parseProviderModel(input.Model); on its error the call returns the error,
\* otherwise it calls initializeProvider(provider) and waits at its c.mu.Lock().
CallResolve(t, id) ==
    /\ phase = "ready"
    /\ cpc[t] = "idle"
    /\ cid' = [cid EXCEPT ![t] = id]
    /\ IF parseProviderModel(id).err # ""
       THEN /\ cpc' = [cpc EXCEPT ![t] = "returned"]
            /\ cres' = [cres EXCEPT ![t] = [p |-> 0, err |-> parseProviderModel(id).err]]
            /\ UNCHANGED cname
       ELSE /\ cpc' = [cpc EXCEPT ![t] = "initLock"]
            /\ cname' = [cname EXCEPT ![t] = NameOf(parseProviderModel(id).provider)]
            /\ cres' = [cres EXCEPT ![t] = NoResult]
    /\ UNCHANGED <<phase, rpc, env, providers, defaultProvider, mu, built, closeVars>>

\* initializeProvider from the Lock to its first return or to the constructor
\* call; a return runs the deferred Unlock.
InitializeProvider(t) ==
    /\ cpc[t] = "initLock"
    /\ CanLock
    /\ IF Registered(cname[t])
       THEN /\ cres' = [cres EXCEPT ![t] = [p |-> providers[cname[t]], err |-> ""]]
            /\ cpc' = [cpc EXCEPT ![t] = "returned"]
            /\ UNCHANGED mu
       ELSE IF cname[t] \notin Known
       THEN /\ cres' = [cres EXCEPT ![t] = [p |-> 0, err |-> "unsupported"]]
            /\ cpc' = [cpc EXCEPT ![t] = "returned"]
            /\ UNCHANGED mu
       ELSE IF ~CredentialPresent(cname[t])
       THEN /\ cres' = [cres EXCEPT ![t] = [p |-> 0, err |-> "initialize"]]
            /\ cpc' = [cpc EXCEPT ![t] = "returned"]
            /\ UNCHANGED mu
       ELSE /\ mu' = [mu EXCEPT !.writer = t]
            /\ cpc' = [cpc EXCEPT ![t] = "construct"]
            /\ UNCHANGED cres
    /\ UNCHANGED <<phase, rpc, env, providers, defaultProvider, cid, cname, built, closeVars>>

\* Mutant: the error return leaves the lock held.
DeferredUnlock_Missing(m) == m

\* `defer c.mu.Unlock()` running at a return of initializeProvider.
DeferredUnlock(m) == [m EXCEPT !.writer = 0]

\* The constructor call and what follows it up to the call of
\* setDefaultProviderIfEmpty, all with c.mu held: an error returns (deferred
\* Unlock); success stores the adapter in the map.
Construct(t, ok) ==
    /\ cpc[t] = "construct"
    /\ ok \/ CanFail(cname[t])
    /\ IF ok
       THEN /\ built' = [built EXCEPT ![cname[t]] = @ + 1]
            /\ providers' = [providers EXCEPT ![cname[t]] = built[cname[t]] + 1]
            /\ cpc' = [cpc EXCEPT ![t] = "setDefault"]
            /\ UNCHANGED <<mu, cres>>
       ELSE /\ cres' = [cres EXCEPT ![t] = [p |-> 0, err |-> "initialize"]]
            /\ cpc' = [cpc EXCEPT ![t] = "returned"]
            /\ mu' = DeferredUnlock(mu)
            /\ UNCHANGED <<built, providers>>
    /\ UNCHANGED <<phase, rpc, env, defaultProvider, cid, cname, closeVars>>

\* A registry entry whose value is a nil Provider.
NilProvider == -1

\* Mutant: the close goroutines stop after the first failed close.
SkipsClose_AfterFailure(p) == p = NilProvider \/ errChan # <<>>

\* The close goroutine's `if p == nil { return }`.
SkipsClose(p) == p = NilProvider

\* Client.Close up to the end of its `for name, provider := range
\* c.providers`: RLock, fresh wg and errChan, one goroutine per map entry.
\* One Close call runs at a time.
CloseBegin(t) ==
    /\ phase = "ready"
    /\ cpc[t] = "idle"
    /\ \A u \in Callers : cpc[u] # "closing"
    /\ CanRLock
    /\ mu' = [mu EXCEPT !.readers = @ + 1]
    /\ cpc' = [cpc EXCEPT ![t] = "closing"]
    /\ cres' = [cres EXCEPT ![t] = NoResult]
    /\ kpc' = [n \in Names |-> IF Registered(n) THEN "start" ELSE "none"]
    /\ closes' = [n \in Names |-> 0]
    /\ errChan' = <<>>
    /\ lastErr' = ""
    /\ UNCHANGED <<phase, rpc, env, providers, defaultProvider, cid, cname, built>>

\* The goroutine of one map entry: a nil provider is skipped; otherwise
\* p.Close() is called and its error, if any, is sent to errChan (buffered
\* with one slot per entry, the send never blocks); wg.Done().
CloseProvider(n, ok) ==
    /\ kpc[n] = "start"
    /\ kpc' = [kpc EXCEPT ![n] = "done"]
    /\ IF SkipsClose(providers[n])
       THEN UNCHANGED <<closes, errChan>>
       ELSE /\ closes' = [closes EXCEPT ![n] = @ + 1]
            /\ errChan' = IF ok THEN errChan ELSE Append(errChan, n)
    /\ UNCHANGED <<phase, rpc, env, providers, defaultProvider, mu, cpc, cid, cname, cres, built, lastErr>>

\* Mutant: the range over errChan ends at the first error it receives.
WaitGroupDone_FirstError == errChan # <<>> \/ \A n \in Names : kpc[n] # "start"

\* wg.Wait() has returned and errChan is closed, which ends Close's
\* `for err := range errChan`: every goroutine has run its wg.Done().
WaitGroupDone == \A n \in Names : kpc[n] # "start"

\* Close after wg.Wait() closed errChan: `for err := range errChan` leaves the
\* last error received in lastErr; return lastErr (deferred RUnlock). The
\* call's goroutines, wg and errChan are gone.
CloseEnd(t) ==
    /\ cpc[t] = "closing"
    /\ WaitGroupDone
    /\ lastErr' = IF errChan = <<>> THEN "" ELSE errChan[Len(errChan)]
    /\ cres' = [cres EXCEPT ![t] = [p |-> 0, err |-> IF errChan = <<>> THEN "" ELSE "close"]]
    /\ mu' = [mu EXCEPT !.readers = @ - 1]
    /\ cpc' = [cpc EXCEPT ![t] = "closed"]
    /\ kpc' = [n \in Names |-> "none"]
    /\ closes' = [n \in Names |-> 0]
    /\ errChan' = <<>>
    /\ UNCHANGED <<phase, rpc, env, providers, defaultProvider, cid, cname, built>>

\* Mutant: without an entry for the default, any registered adapter is used.
Route_AnyRegistered ==
    IF defaultProvider = "" THEN [p |-> 0, err |-> "nodefault"]
    ELSE IF ~Registered(defaultProvider)
    THEN IF \E n \in Names : Registered(n)
         THEN [p |-> providers[CHOOSE n \in Names : Registered(n)], err |-> ""]
         ELSE [p |-> 0, err |-> "unsupported"]
    ELSE [p |-> providers[defaultProvider], err |-> ""]

\* The adapter a default-provider operation calls (p, 0 = none) or the error
\* it returns without calling one.
Route ==
    IF defaultProvider = "" THEN [p |-> 0, err |-> "nodefault"]
    ELSE IF ~Registered(defaultProvider) THEN [p |-> 0, err |-> "unsupported"]
    ELSE [p |-> providers[defaultProvider], err |-> ""]

\* GenerateEmbedding / StartChat / SendChatMessage: RLock, route to the
\* default provider, RUnlock.
DefaultBegin(t) ==
    /\ phase = "ready"
    /\ cpc[t] = "idle"
    /\ CanRLock
    /\ mu' = [mu EXCEPT !.readers = @ + 1]
    /\ cpc' = [cpc EXCEPT ![t] = "routing"]
    /\ cres' = [cres EXCEPT ![t] = NoResult]
    /\ UNCHANGED <<phase, rpc, env, providers, defaultProvider, cid, cname, built, closeVars>>

DefaultEnd(t) ==
    /\ cpc[t] = "routing"
    /\ cres' = [cres EXCEPT ![t] = Route]
    /\ mu' = [mu EXCEPT !.readers = @ - 1]
    /\ cpc' = [cpc EXCEPT ![t] = "routed"]
    /\ UNCHANGED <<phase, rpc, env, providers, defaultProvider, cid, cname, built, closeVars>>

\* A step of caller t inside a call it has started.
Advance(t) ==
    \/ InitializeProvider(t)
    \/ \E ok \in BOOLEAN : Construct(t, ok)
    \/ SetDefaultProviderIfEmpty(Caller(t))
    \/ CloseEnd(t)
    \/ DefaultEnd(t)

RegistryNext ==
    \/ \E n \in Known, ok \in BOOLEAN : RegisterStart(n, ok) /\ UNCHANGED <<streamVars, parseVars, genVars, pairVars, logVars>>
    \/ \E n \in Known : RegisterProvider(n) /\ UNCHANGED <<streamVars, parseVars, genVars, pairVars, logVars>>
    \/ \E w \in Waiters : SetDefaultProviderIfEmpty(w) /\ UNCHANGED <<streamVars, parseVars, genVars, pairVars, logVars>>
    \/ NewClientFails /\ UNCHANGED <<streamVars, parseVars, genVars, pairVars, logVars>>
    \/ NewClientReturns /\ UNCHANGED <<streamVars, parseVars, genVars, pairVars, logVars>>
    \/ \E n \in Known : SetEnv(n) /\ UNCHANGED <<streamVars, parseVars, genVars, pairVars, logVars>>
    \/ \E t \in Callers, id \in CallIds : CallResolve(t, id) /\ UNCHANGED <<streamVars, parseVars, genVars, pairVars, logVars>>
    \/ \E t \in Callers : InitializeProvider(t) /\ UNCHANGED <<streamVars, parseVars, genVars, pairVars, logVars>>
    \/ \E t \in Callers, ok \in BOOLEAN : Construct(t, ok) /\ UNCHANGED <<streamVars, parseVars, genVars, pairVars, logVars>>
    \/ \E t \in Callers : CloseBegin(t) /\ UNCHANGED <<streamVars, parseVars, genVars, pairVars, logVars>>
    \/ \E n \in Names, ok \in BOOLEAN : CloseProvider(n, ok) /\ UNCHANGED <<streamVars, parseVars, genVars, pairVars, logVars>>
    \/ \E t \in Callers : CloseEnd(t) /\ UNCHANGED <<streamVars, parseVars, genVars, pairVars, logVars>>
    \/ \E t \in Callers : DefaultBegin(t) /\ UNCHANGED <<streamVars, parseVars, genVars, pairVars, logVars>>
    \/ \E t \in Callers : DefaultEnd(t) /\ UNCHANGED <<streamVars, parseVars, genVars, pairVars, logVars>>

\* ------------------------------------------------------------------ logger
\* common.LogLevel
DisabledLevel == 0
DebugLevel == 1
InfoLevel == 2
WarnLevel == 3
ErrorLevel == 4
LogLevels == {DisabledLevel, DebugLevel, InfoLevel, WarnLevel, ErrorLevel}

\* The severities of the logger's methods: Debug(f), Info(f), Warn(f), Error(f).
Severities == {DebugLevel, InfoLevel, WarnLevel, ErrorLevel}

MaxLogCalls == 2

\* defaultLogger.log / logf: the message is printed when its severity is at
\* least the logger's level.
Prints(severity, l) == severity >= l

\* The logger of a client NewClient made without a log-level option.
LogIdle == level = DisabledLevel /\ logCalls = <<>>

\* defaultLogger.SetLevel
SetLevel(l) ==
    /\ level' = l
    /\ UNCHANGED <<logCalls, streamVars, clientVars, parseVars, genVars, pairVars>>

\* One call of Debug, Info, Warn or Error (or their f forms): what was asked,
\* at which level of the logger, and whether a line was written.
Log(severity) ==
    /\ Len(logCalls) < MaxLogCalls
    /\ logCalls' = Append(logCalls, [severity |-> severity, level |-> level,
                                     written |-> Prints(severity, level)])
    /\ UNCHANGED <<level, streamVars, clientVars, parseVars, genVars, pairVars>>

\* ------------------------------------------------------------------ two streams
MaxPerStream == 2
Streams == {1, 2}

\* Mutant: the accumulators are one pair shared by the adapter's streams.
AccumulatorsOf_Shared(s) == 1

\* `var accumulatedText string; var accumulatedUsage models.Usage` are
\* declared inside the goroutine each GenerateCompletionStream call starts:
\* every stream has its own pair.
AccumulatorsOf(s) == s

\* What the backend delivers to a stream: the units that carry text or usage
\* and the ones that end the stream.
PairUnits(a) ==
    CASE a = "openai" ->
           { OAText(<<"a">>, FALSE), OAText(<<"b">>, TRUE),
             [OAText(<<"a">>, FALSE) EXCEPT !.hasUM = TRUE, !.um = Usage(3, 2, 5)],
             [OAJson EXCEPT !.k = "sentinel"] }
      [] a = "anthropic" ->
           { [ANEvent("message_start") EXCEPT !.hasField = TRUE, !.tokens = 3],
             [ANEvent("content_block_delta") EXCEPT !.hasField = TRUE, !.text = <<"a">>],
             [ANEvent("content_block_delta") EXCEPT !.hasField = TRUE, !.text = <<"b">>],
             [ANEvent("message_delta") EXCEPT !.hasField = TRUE, !.tokens = 2],
             ANEvent("message_stop") }
      [] a = "ollama" ->
           { OLLine(<<"a">>, FALSE, 3, 2), OLLine(<<"b">>, TRUE, 3, 2),
             OLLine(<<>>, TRUE, 0, 0) }
      [] OTHER ->
           { [GMItem EXCEPT !.parts = "text", !.text = <<"a">>],
             [GMItem EXCEPT !.parts = "text", !.text = <<"b">>],
             [GMItem EXCEPT !.k = "iterdone"] }

PairIdle ==
    /\ spos = [s \in Streams |-> "idle"] /\ sfed = [s \in Streams |-> <<>>]
    /\ sacc = [s \in Streams |-> ZeroUsage] /\ stext = [s \in Streams |-> <<>>]
    /\ sout = [s \in Streams |-> <<>>]

\* A GenerateCompletionStream call on the adapter returns its channel and its
\* decode goroutine starts with zero-valued accumulators.
PairOpen(s) ==
    /\ spos[s] = "idle"
    /\ spos' = [spos EXCEPT ![s] = "read"]
    /\ sacc' = [sacc EXCEPT ![AccumulatorsOf(s)] = ZeroUsage]
    /\ stext' = [stext EXCEPT ![AccumulatorsOf(s)] = <<>>]
    /\ UNCHANGED <<sfed, sout, streamVars, clientVars, parseVars, genVars, logVars>>

\* One iteration of stream s's decode loop on the unit ev.
PairIterate(s, ev) ==
    /\ spos[s] = "read"
    /\ Len(sfed[s]) < MaxPerStream
    /\ LET r == Decode(adapter, ev, sacc[AccumulatorsOf(s)], stext[AccumulatorsOf(s)])
       IN  /\ sfed' = [sfed EXCEPT ![s] = Append(@, ev)]
           /\ sacc' = [sacc EXCEPT ![AccumulatorsOf(s)] = r.acc]
           /\ stext' = [stext EXCEPT ![AccumulatorsOf(s)] = r.text]
           /\ sout' = IF r.emit THEN [sout EXCEPT ![s] = Append(@, r.chunk)] ELSE sout
           /\ spos' = [spos EXCEPT ![s] =
                          IF r.emit THEN (IF r.stop THEN "sendlast" ELSE "send")
                          ELSE IF r.stop THEN "closed" ELSE "read"]
    /\ UNCHANGED <<streamVars, clientVars, parseVars, genVars, logVars>>

\* The consumer of stream s receives the chunk its loop is sending.
PairReceive(s) ==
    /\ spos[s] \in {"send", "sendlast"}
    /\ spos' = [spos EXCEPT ![s] = IF spos[s] = "send" THEN "read" ELSE "closed"]
    /\ UNCHANGED <<sfed, sacc, stext, sout, streamVars, clientVars, parseVars, genVars, logVars>>

\* parseProviderModel has not returned.
NotParsed == [provider |-> <<>>, model |-> <<>>, err |-> "-"]
ParseIdle == providerModel = <<>> /\ parts = NotParsed

\* ------------------------------------------------------------------ generate
\* What Client.GenerateCompletion returns: (resp, nil) with ok, or (nil, err).
\* An error is its root cause, the provider names its chain of messages
\* spells, and where it arose: "parse", "resolve" or "adapter".
NoReturn == [ok |-> FALSE, Text |-> "", Provider |-> "", cause |-> "", names |-> {}, from |-> ""]
ErrorOf(cause, names, from) == [NoReturn EXCEPT !.cause = cause, !.names = names, !.from = from]

\* &models.CompletionResponse{Text: ..., Usage: ...}: every adapter fills
\* these two fields; Provider keeps the zero value of a string.
Response == [NoReturn EXCEPT !.ok = TRUE, !.Text = "text"]

\* The error GenerateCompletion returns when the parse or initializeProvider
\* failed: the parse error wrapped in "failed to parse provider/model: %w",
\* ErrUnsupportedProvider as it is, the constructor's error wrapped in
\* "failed to initialize provider <name>: %w".
ResolveError(e, name) ==
    CASE e = "format" -> ErrorOf("invalid provider/model format", {}, "parse")
      [] e = "unsupported" -> ErrorOf("unsupported provider", {}, "resolve")
      [] OTHER -> ErrorOf("constructor", {name}, "resolve")

\* How the backend call of a synchronous generate can end. HTTP adapters:
\* client.Do fails, the status is not 200, the body does not decode, the
\* decoded body lacks the content. Gemini: GenerateContent fails, no
\* candidate, a part that is not text.
Outcomes(a) ==
    IF a = "googlegemini" THEN {"ok", "transport", "empty", "type"}
    ELSE {"ok", "transport", "status", "decode", "format"}

\* How a CountTokens call can end: SendMessage fails, no candidate.
CountOutcomes == {"ok", "transport", "empty"}

\* The error an adapter returns for a failed outcome. Only the OpenAI
\* adapter's status error spells a provider ("OpenAI API request failed").
AdapterError(a, o) ==
    ErrorOf(o, IF a = "openai" /\ o = "status" THEN {a} ELSE {}, "adapter")

\* `return nil, err` / `return resp, nil` of Client.GenerateCompletion: the
\* adapter's result as it is.
ClientReturn(r) == r

\* The goroutine whose GenerateCompletion call is followed.
TheCall == 1

GenerateIdle == gpc = "idle" /\ requests = 0 /\ ret = NoReturn

\* initializeProvider (or the parse) has returned to GenerateCompletion: an
\* error is returned to the caller, otherwise p.GenerateCompletion is called.
Dispatch(t) ==
    /\ cpc[t] = "returned"
    /\ gpc = "idle"
    /\ IF cres[t].err # ""
       THEN /\ gpc' = "returned"
            /\ ret' = ResolveError(cres[t].err, cname[t])
       ELSE /\ gpc' = "adapter"
            /\ UNCHANGED ret
    /\ UNCHANGED <<requests, clientVars, streamVars, parseVars, pairVars, logVars>>

\* The adapter's request to the backend (p.client.Do, model.GenerateContent)
\* and the handling of its answer. The HTTP adapters return here; the Gemini
\* adapter goes on to count the tokens of the prompt.
GenerateRequest(t, o) ==
    /\ gpc = "adapter"
    /\ o \in Outcomes(cname[t])
    /\ requests' = requests + 1
    /\ IF o # "ok"
       THEN /\ gpc' = "returned"
            /\ ret' = ClientReturn(AdapterError(cname[t], o))
       ELSE IF cname[t] = "googlegemini"
       THEN /\ gpc' = "count1"
            /\ UNCHANGED ret
       ELSE /\ gpc' = "returned"
            /\ ret' = ClientReturn(Response)
    /\ UNCHANGED <<clientVars, streamVars, parseVars, pairVars, logVars>>

\* GoogleGeminiProvider.CountTokens: starts a chat and sends the content to
\* the backend with cs.SendMessage; called for the prompt, then for the
\* generated text.
CountTokens(t, o) ==
    /\ gpc \in {"count1", "count2"}
    /\ requests' = requests + 1
    /\ IF o # "ok"
       THEN /\ gpc' = "returned"
            /\ ret' = ClientReturn(AdapterError(cname[t], o))
       ELSE IF gpc = "count1"
       THEN /\ gpc' = "count2"
            /\ UNCHANGED ret
       ELSE /\ gpc' = "returned"
            /\ ret' = ClientReturn(Response)
    /\ UNCHANGED <<clientVars, streamVars, parseVars, pairVars, logVars>>

\* The identifiers given to GenerateCompletion: those of CallIds and one for
\* each of the other two providers.
GenerateIds == CallIds \cup {<<n, Slash, "m">> : n \in {"anthropic", "ollama"}}

\* A client NewClient returned, possibly followed by changes of the
\* environment: the registered providers are among those whose credential is
\* set, and the default is one of them or the one an option named.
GenerateInit ==
    /\ StreamIdle /\ ParseIdle /\ GenerateIdle /\ PairIdle /\ LogIdle
    /\ phase = "ready" /\ rpc = [n \in Known |-> "done"]
    /\ env \in SUBSET Known
    /\ providers \in [Names -> {0, 1}]
    /\ \A n \in Names : providers[n] = 1 => n \in env
    /\ defaultProvider \in {n \in Names : providers[n] = 1} \cup {"openai"}
    /\ mu = [writer |-> 0, readers |-> 0]
    /\ cpc = [t \in Callers |-> "idle"] /\ cid = [t \in Callers |-> <<>>]
    /\ cname = [t \in Callers |-> ""]
    /\ cres = [t \in Callers |-> NoResult]
    /\ built = [n \in Names |-> providers[n]]
    /\ CloseIdle

GenerateNext ==
    \/ \E id \in GenerateIds : CallResolve(TheCall, id) /\ UNCHANGED <<streamVars, parseVars, genVars, pairVars, logVars>>
    \/ InitializeProvider(TheCall) /\ UNCHANGED <<streamVars, parseVars, genVars, pairVars, logVars>>
    \/ \E ok \in BOOLEAN : Construct(TheCall, ok) /\ UNCHANGED <<streamVars, parseVars, genVars, pairVars, logVars>>
    \/ Dispatch(TheCall)
    \/ \E o \in Outcomes(cname[TheCall]) : GenerateRequest(TheCall, o)
    \/ \E o \in CountOutcomes : CountTokens(TheCall, o)

\* ------------------------------------------------------------------ specifications
StreamInit == StreamIdle /\ ClientIdle /\ ParseIdle /\ GenerateIdle /\ PairIdle /\ LogIdle
RegistryInit == StreamIdle /\ ClientInit /\ ParseIdle /\ GenerateIdle /\ PairIdle /\ LogIdle

SpecStream == StreamInit /\ [][StreamNext]_vars

\* The same with a scheduler that runs the relay goroutine and a caller that
\* keeps reading: a receive that stays possible happens. The backend is not
\* obliged to send anything.
SpecStreamLive ==
    /\ SpecStream
    /\ WF_vars(Receive /\ UNCHANGED <<clientVars, parseVars, genVars, pairVars, logVars>>)
    /\ WF_vars(CallerReceive /\ UNCHANGED <<clientVars, parseVars, genVars, pairVars, logVars>>)
    /\ WF_vars(RelayClose /\ UNCHANGED <<clientVars, parseVars, genVars, pairVars, logVars>>)

\* The goroutines are scheduled, the caller is free to stop receiving (as a
\* caller does that cancelled its context and went away).
SpecStreamCancel ==
    /\ SpecStream
    /\ WF_vars(Receive /\ UNCHANGED <<clientVars, parseVars, genVars, pairVars, logVars>>)
    /\ WF_vars(RelayClose /\ UNCHANGED <<clientVars, parseVars, genVars, pairVars, logVars>>)

\* A consumer as in the repository's tests and examples: it receives until
\* the first chunk that has Done set or carries an error, then stops.
CallerStopped ==
    \E i \in 1..Len(debugStream) : debugStream[i].Done \/ debugStream[i].Error # ""
CallerReceiveUntilDone == ~CallerStopped /\ CallerReceive

StopsNext ==
    \/ \E a \in Adapters, ok \in BOOLEAN : Open(a, ok) /\ UNCHANGED <<clientVars, parseVars, genVars, pairVars, logVars>>
    \/ \E ev \in Units(adapter) : Iterate(ev) /\ UNCHANGED <<clientVars, parseVars, genVars, pairVars, logVars>>
    \/ Receive /\ UNCHANGED <<clientVars, parseVars, genVars, pairVars, logVars>>
    \/ CallerReceiveUntilDone /\ UNCHANGED <<clientVars, parseVars, genVars, pairVars, logVars>>
    \/ RelayClose /\ UNCHANGED <<clientVars, parseVars, genVars, pairVars, logVars>>
    \/ \E ev \in Units(adapter) : Drop(ev) /\ UNCHANGED <<clientVars, parseVars, genVars, pairVars, logVars>>

\* The goroutines are scheduled and the consumer receives whenever it has
\* not stopped.
SpecStreamStops ==
    /\ StreamInit /\ [][StopsNext]_vars
    /\ WF_vars(Receive /\ UNCHANGED <<clientVars, parseVars, genVars, pairVars, logVars>>)
    /\ WF_vars(CallerReceiveUntilDone /\ UNCHANGED <<clientVars, parseVars, genVars, pairVars, logVars>>)
    /\ WF_vars(RelayClose /\ UNCHANGED <<clientVars, parseVars, genVars, pairVars, logVars>>)

SpecRegistry == RegistryInit /\ [][RegistryNext]_vars

\* Client.Close over a registry filled by NewClient and RegisterProvider
\* calls: every entry of CloseNames is absent, an adapter, or a nil Provider.
CloseNames == {"openai", "anthropic", "other"}
CloseInit ==
    /\ StreamIdle /\ ParseIdle /\ GenerateIdle /\ PairIdle /\ LogIdle
    /\ phase = "ready" /\ rpc = [n \in Known |-> "done"] /\ env = {}
    /\ providers \in [Names -> {0, 1, NilProvider}]
    /\ \A n \in Names \ CloseNames : providers[n] = 0
    /\ defaultProvider = ""
    /\ mu = [writer |-> 0, readers |-> 0]
    /\ cpc = [t \in Callers |-> "idle"] /\ cid = [t \in Callers |-> <<>>]
    /\ cname = [t \in Callers |-> ""]
    /\ cres = [t \in Callers |-> NoResult]
    /\ built = [n \in Names |-> IF providers[n] = 1 THEN 1 ELSE 0]
    /\ CloseIdle

CloseNext ==
    \/ \E t \in Callers : CloseBegin(t) /\ UNCHANGED <<streamVars, parseVars, genVars, pairVars, logVars>>
    \/ \E n \in Names, ok \in BOOLEAN : CloseProvider(n, ok) /\ UNCHANGED <<streamVars, parseVars, genVars, pairVars, logVars>>
    \/ \E t \in Callers : CloseEnd(t) /\ UNCHANGED <<streamVars, parseVars, genVars, pairVars, logVars>>

SpecClose == CloseInit /\ [][CloseNext]_vars

\* The same with Close's goroutines scheduled and every adapter's Close
\* returning.
SpecCloseLive ==
    /\ SpecClose
    /\ \A n \in Names :
          WF_vars((\E ok \in BOOLEAN : CloseProvider(n, ok))
                     /\ UNCHANGED <<streamVars, parseVars, genVars, pairVars, logVars>>)
    /\ \A t \in Callers :
          WF_vars(CloseEnd(t) /\ UNCHANGED <<streamVars, parseVars, genVars, pairVars, logVars>>)

\* Two GenerateCompletionStream calls on the same adapter.
PairInit ==
    /\ adapter \in Adapters /\ spc = "idle" /\ fed = <<>> /\ unread = <<>> /\ sending = ZeroChunk
    /\ afterSend = "continue" /\ recv = <<>>
    /\ accumulatedUsage = ZeroUsage /\ accumulatedText = <<>>
    /\ status = "" /\ dpc = "none" /\ resp = ZeroChunk /\ debugStream = <<>>
    /\ ClientIdle /\ ParseIdle /\ GenerateIdle /\ PairIdle /\ LogIdle

PairNext ==
    \/ \E s \in Streams : PairOpen(s)
    \/ \E s \in Streams, ev \in PairUnits(adapter) : PairIterate(s, ev)
    \/ \E s \in Streams : PairReceive(s)

\* Two streams open at the same time on one adapter.
SpecTwoStreams == PairInit /\ [][PairNext]_vars

\* The client's logger: level changes and log calls in any order.
LogInit == StreamIdle /\ ClientIdle /\ ParseIdle /\ GenerateIdle /\ PairIdle /\ LogIdle

LogNext ==
    \/ \E l \in LogLevels : SetLevel(l)
    \/ \E severity \in Severities : Log(severity)

SpecLogger == LogInit /\ [][LogNext]_vars

\* One Client.GenerateCompletion call from its parse to its return.
SpecGenerate == GenerateInit /\ [][GenerateNext]_vars

\* parseProviderModel on every identifier of at most MaxIdLen symbols.
Symbols == {Slash, "p", "m"}
Idents == UNION {[1..k -> Symbols] : k \in 0..MaxIdLen}

ParseInit ==
    /\ StreamIdle /\ ClientIdle /\ GenerateIdle /\ PairIdle /\ LogIdle
    /\ providerModel \in Idents /\ parts = NotParsed

Parse ==
    /\ parts = NotParsed
    /\ parts' = parseProviderModel(providerModel)
    /\ UNCHANGED <<providerModel, streamVars, clientVars, genVars, pairVars, logVars>>

SpecParse == ParseInit /\ [][Parse]_vars

\* ------------------------------------------------------------------ observations
\* The chunks the decode loop has put on the channel, received or still blocked
\* in the send.
Emitted == IF spc = "send" THEN Append(recv, sending) ELSE recv
Last(q) == q[Len(q)]

RECURSIVE ConcatText(_)
ConcatText(q) == IF q = <<>> THEN <<>> ELSE q[1].Text \o ConcatText(Tail(q))

\* The text delta a unit of adapter a carries (<<>> when it carries none).
DeltaOf(a, ev) ==
    CASE a = "openai" -> IF ev.k = "json" /\ ev.choices = "obj" /\ ev.delta /\ ev.hasContent
                         THEN ev.content ELSE <<>>
      [] a = "anthropic" -> IF ev.k = "json" /\ ev.type = "content_block_delta" /\ ev.hasField
                            THEN ev.text ELSE <<>>
      [] a = "ollama" -> IF ev.k = "json" /\ ev.hasResponse THEN ev.response ELSE <<>>
      [] OTHER -> IF ev.k = "item" /\ ev.parts = "text" THEN ev.text ELSE <<>>

RECURSIVE ConcatDeltas(_, _)
ConcatDeltas(a, q) == IF q = <<>> THEN <<>> ELSE DeltaOf(a, q[1]) \o ConcatDeltas(a, Tail(q))

\* The backend's own done signal.
DoneSignal(a, ev) ==
    CASE a = "openai" -> ev.k = "sentinel"
      [] a = "anthropic" -> ev.k = "json" /\ ev.type = "message_stop"
      [] a = "ollama" -> ev.k = "json" /\ ev.done
      [] OTHER -> ev.k = "iterdone"

\* A unit without text that reports token counts: OpenAI's final usage message
\* (no choice), Anthropic's message_start (prompt) and message_delta (completion).
ReportsPrompt(a, ev) ==
    CASE a = "openai" -> ev.k = "json" /\ ev.choices \in {"absent", "empty"} /\ ev.hasUsage
      [] a = "anthropic" -> ev.k = "json" /\ ev.type = "message_start" /\ ev.hasField
      [] OTHER -> FALSE
ReportsCompletion(a, ev) ==
    CASE a = "openai" -> ev.k = "json" /\ ev.choices \in {"absent", "empty"} /\ ev.hasUsage
      [] a = "anthropic" -> ev.k = "json" /\ ev.type = "message_delta" /\ ev.hasField
      [] OTHER -> FALSE
PromptOf(a, ev) == IF a = "openai" THEN ev.usage.PromptTokens ELSE ev.tokens
CompletionOf(a, ev) == IF a = "openai" THEN ev.usage.CompletionTokens ELSE ev.tokens

\* The stream is over and the consumer has read it to the end.
Consumed == spc = "closed"
EndsWithDone == Len(recv) > 0 /\ Last(recv).Done
NoErrorChunk == \A i \in 1..Len(recv) : recv[i].Error = ""

InResolve(t) == cpc[t] \in {"initLock", "construct", "setDefault"}

\* ------------------------------------------------------------------ claims

\* C1: every call that resolves a not-yet-registered provider whose credential
\* is present returns: while a caller is inside initializeProvider some caller
\* inside the client (or a close goroutine of a running Close) can take its
\* next step (no caller waits for a lock that nobody can release), and a caller that has returned from the resolve has
\* left the registry lock free.
C1_ResolveReturns ==
    /\ \A t \in Callers :
         InResolve(t) =>
            \/ \E u \in Callers : ENABLED Advance(u)
            \/ \E n \in Names, ok \in BOOLEAN : ENABLED CloseProvider(n, ok)
    /\ (\A t \in Callers : ~InResolve(t)) => mu.writer = 0

\* C2: under concurrent resolution of the same unregistered name at most one
\* adapter is ever constructed for a name, the registry entry of a name is that
\* one adapter, and every caller that got an adapter from a resolve got the
\* registry's adapter.
C2_OneAdapterPerName ==
    \A n \in Names :
       /\ built[n] <= 1
       /\ Registered(n) => providers[n] = built[n]
       /\ \A t \in Callers :
            (cname[t] = n /\ cpc[t] = "returned" /\ cres[t].err = "") => cres[t].p = providers[n]

\* Two callers resolve the same known, unregistered name at the same time: one
\* has run the constructor and stored the adapter, the other waits at the Lock.
C2_Witness ==
    \E t, u \in Callers :
       /\ t # u /\ cname[t] = cname[u] /\ cname[t] \in Known
       /\ cpc[t] = "setDefault" /\ cpc[u] = "initLock"
       /\ built[cname[t]] = 1 /\ providers[cname[t]] = 1

\* C3: a read failure or a payload parse failure produces one error chunk and
\* then the loop stops (it returns, which closes the channel), and an error
\* chunk is the last chunk of its stream: no chunk before the last emitted one
\* carries an error.
C3_ErrorChunkIsLast ==
    /\ (Len(Emitted) > 0 /\ Last(Emitted).Error \in {"read", "parse"}) => LoopOver
    /\ \A i \in 1..(Len(Emitted) - 1) : Emitted[i].Error = ""

\* C4: at most one chunk has Done set, it is the last chunk emitted, and after
\* it the loop returns (the channel is closed, nothing is sent afterwards).
C4_DoneChunkIsLast ==
    /\ \A i \in 1..(Len(Emitted) - 1) : ~Emitted[i].Done
    /\ (Len(Emitted) > 0 /\ Last(Emitted).Done) => LoopOver

\* A stream of several chunks, read to the end, whose last chunk is Done.
C4_Witness == Consumed /\ Len(recv) >= 2 /\ Last(recv).Done

\* C5: the Text fields of all chunks of a stream read to its Done chunk,
\* concatenated in emission order, equal the backend's text deltas concatenated
\* in arrival order.
C5_TextPreserved ==
    (Consumed /\ EndsWithDone /\ NoErrorChunk) => ConcatText(recv) = ConcatDeltas(adapter, fed)

\* C6: a consumer that reads a stream until the channel is closed sees a Done
\* chunk or an error chunk as the final element.
C6_FinalIsDoneOrError ==
    Consumed => (Len(recv) > 0 /\ (Last(recv).Done \/ Last(recv).Error # ""))

\* C7: when the backend reports its token counts in units without text (OpenAI's
\* final usage message, Anthropic's message_start / message_delta), wherever
\* they stand in the backend's stream, the terminal chunk carries a Usage with
\* the reported prompt and completion counts.
C7_TerminalCarriesUsage ==
    (Consumed /\ EndsWithDone /\ adapter \in {"openai", "anthropic"}) =>
       \A i \in 1..Len(fed \o unread) :
          LET ev == (fed \o unread)[i] IN
          /\ ReportsPrompt(adapter, ev) =>
               (Last(recv).Usage = "acc" /\ Deref(Last(recv)).PromptTokens = PromptOf(adapter, ev))
          /\ ReportsCompletion(adapter, ev) =>
               (Last(recv).Usage = "acc"
                /\ Deref(Last(recv)).CompletionTokens = CompletionOf(adapter, ev))

\* The lines of an Ollama stream are k lines with a response string and
\* done=false, then one line (with a response string, as in the scenario) with
\* done=true.
OllamaScenario(q) ==
    /\ Len(q) > 0
    /\ \A i \in 1..Len(q) : q[i].k = "json" /\ q[i].hasResponse /\ (q[i].done <=> i = Len(q))

C9_DoneSignalEmitsUsage ==
    (Len(fed) > 0 /\ DoneSignal(adapter, Last(fed))) =>
       /\ LoopOver
       /\ Len(Emitted) > 0 /\ Last(Emitted).Done /\ Last(Emitted).Usage # "nil"

\* C10: in an OpenAI, Anthropic or Ollama stream that ends without error and in
\* which the backend reported non-zero prompt and completion counts (for
\* OpenAI a usage object whose three counts are non-zero), the Done chunk has a
\* non-nil Usage whose three counts are non-zero.
NonZero(u) == u.PromptTokens > 0 /\ u.CompletionTokens > 0 /\ u.TotalTokens > 0
ReportedCounts(a, ev) ==
    CASE a = "openai" -> ev.k = "json" /\ ev.hasUsage /\ NonZero(ev.usage)
      [] a = "ollama" -> ev.k = "json" /\ ev.prompt_eval_count > 0 /\ ev.eval_count > 0
      [] OTHER -> FALSE
C10_DoneUsageNonZero ==
    (Consumed /\ EndsWithDone /\ NoErrorChunk /\ adapter \in {"openai", "anthropic", "ollama"}
     /\ IF adapter = "anthropic"
        THEN (\E i \in 1..Len(fed) : ReportsPrompt(adapter, fed[i]) /\ fed[i].tokens > 0)
             /\ (\E i \in 1..Len(fed) : ReportsCompletion(adapter, fed[i]) /\ fed[i].tokens > 0)
        ELSE \E i \in 1..Len(fed) : ReportedCounts(adapter, fed[i])) =>
       /\ Last(recv).Usage = "acc"
       /\ NonZero(Deref(Last(recv)))

\* C11: on every terminal chunk that carries a Usage, the total equals the
\* prompt count plus the completion count, whatever usage events the backend
\* sent and in whatever order.
C11_TotalIsSum ==
    (Len(Emitted) > 0 /\ Last(Emitted).Done /\ Last(Emitted).Usage = "acc") =>
       Deref(Last(Emitted)).TotalTokens =
          Deref(Last(Emitted)).PromptTokens + Deref(Last(Emitted)).CompletionTokens

\* C12: when the backend answers the streaming request with a non-success
\* status, the adapter call and Client.GenerateCompletionStream return an
\* error: no decode goroutine and no relay is started, and no chunk is ever
\* emitted or delivered. For every adapter.
C12_RejectedSynchronously ==
    status = "fail" =>
       /\ spc = "rejected" /\ dpc = "none"
       /\ Emitted = <<>> /\ debugStream = <<>>

\* C18: the chunks a caller receives from Client.GenerateCompletionStream are
\* the chunks the adapter emitted, with the same field values in the same
\* order, none added, dropped, duplicated or rewritten (the relay holds at most
\* the one chunk it is about to forward), and the caller's channel is closed
\* only after the adapter's channel is closed and all its chunks were delivered.
C18_RelayUnmodified ==
    /\ Len(debugStream) <= Len(recv)
    /\ \A i \in 1..Len(debugStream) : debugStream[i] = recv[i]
    /\ IF dpc = "send"
       THEN Len(recv) = Len(debugStream) + 1 /\ resp = Last(recv)
       ELSE Len(recv) = Len(debugStream)
    /\ dpc = "closed" => (spc = "closed" /\ debugStream = Emitted)

\* A stream of several chunks ending with a Done chunk that carries a Usage
\* was relayed to the caller and the caller's channel is closed.
C18_Witness ==
    /\ dpc = "closed" /\ Len(debugStream) >= 2
    /\ Last(debugStream).Done /\ Last(debugStream).Usage = "acc"

\* C13: one call of Client.Close invokes Close exactly once on every registered
\* non-nil adapter (and on nothing else), also when closes fail; it returns nil
\* when no close failed, the failure when exactly one failed, and one of the
\* failures when several failed.
C13_CloseAll ==
    [][/\ \A n \in Names : closes'[n] <= 1
       /\ \A t \in Callers :
            (cpc[t] = "closing" /\ cpc'[t] = "closed") =>
               /\ \A n \in Names :
                    closes[n] = IF Registered(n) /\ providers[n] # NilProvider THEN 1 ELSE 0
               /\ (cres'[t].err = "") <=> (errChan = <<>>)
               /\ (lastErr' = "") <=> (errChan = <<>>)
               /\ lastErr' # "" => \E i \in 1..Len(errChan) : errChan[i] = lastErr'
               /\ Len(errChan) = 1 => lastErr' = errChan[1]]_vars

\* Close over three entries is about to return: the adapter "anthropic" failed
\* to close, "openai" was closed all the same, the nil entry "other" was skipped.
C13_Witness ==
    /\ \E t \in Callers : cpc[t] = "closing"
    /\ \A n \in Names : kpc[n] # "start"
    /\ providers["openai"] = 1 /\ providers["anthropic"] = 1 /\ providers["other"] = NilProvider
    /\ errChan = <<"anthropic">>
    /\ closes["openai"] = 1 /\ closes["anthropic"] = 1 /\ closes["other"] = 0

\* C14: NewClient does not short-circuit on a failed registration: it returns
\* (with the client or with the failure) only after all four register tasks
\* have finished.
C14_ReturnsAfterBarrier ==
    phase # "init" => \A n \in Known : rpc[n] \in {"done", "failed"}

\* C15: for every subset of the four credentials in the environment, when no
\* constructor fails NewClient returns a client whose registry holds exactly
\* the providers whose credential is present; an absent credential is skipped
\* and is never a startup error (only a constructor that ran and failed is),
\* and while no constructor has failed the registration can always go on.
C15_RegistryMatchesEnv ==
    /\ phase = "failed" => \E n \in Known : rpc[n] = "failed" /\ n \in env
    /\ \A n \in Known : (Registered(n) \/ rpc[n] = "failed") => n \in env
    /\ (phase = "init" /\ \A n \in Known : rpc[n] = "done") =>
          /\ ENABLED NewClientReturns
          /\ \A n \in Names : Registered(n) <=> n \in env
    /\ (phase = "init" /\ \A n \in Known : rpc[n] # "failed") =>
          \/ \A n \in Known : rpc[n] = "done"
          \/ \E n \in Known :
                \/ ENABLED RegisterStart(n, TRUE)
                \/ ENABLED RegisterProvider(n)
                \/ ENABLED SetDefaultProviderIfEmpty(Task(n))

\* NewClient has returned the client for the credentials of OpenAI and Ollama:
\* exactly these two providers are registered.
C15_Witness ==
    /\ phase = "ready" /\ \A t \in Callers : cpc[t] = "idle"
    /\ env = {"openai", "ollama"}
    /\ \A n \in Names : Registered(n) <=> n \in {"openai", "ollama"}

\* C16: the default provider is designated at most once: once the default
\* provider's name is non-empty it never changes (a configured default is never
\* replaced, and of concurrent registrations exactly one wins), and a name that
\* was designated by a registration or a resolve is a registered provider.
C16_DefaultSetOnce ==
    [][/\ defaultProvider # "" => defaultProvider' = defaultProvider
       /\ defaultProvider' # defaultProvider =>
             /\ providers[defaultProvider'] # 0
             /\ \A n \in Known : rpc[n] = "done" => ~Registered(n)]_vars

\* Two registrations raced for the default: both providers are registered and
\* their tasks have finished, and the default is one of them.
C16_Witness ==
    /\ phase = "ready"
    /\ Registered("openai") /\ Registered("anthropic")
    /\ rpc["openai"] = "done" /\ rpc["anthropic"] = "done"
    /\ defaultProvider = "anthropic"

\* C17: GenerateEmbedding, StartChat and SendChatMessage route to the
\* designated default provider and to no other adapter: without a default they
\* fail with the no-default error, with a default that has no registry entry
\* they fail with ErrUnsupportedProvider, in both cases calling no adapter, and
\* they never change the registry or the default.
C17_RoutesToDefault ==
    [][\A t \in Callers :
          (cpc[t] = "routing" /\ cpc'[t] = "routed") =>
             /\ UNCHANGED <<providers, defaultProvider, built>>
             /\ defaultProvider = "" => cres'[t] = [p |-> 0, err |-> "nodefault"]
             /\ (defaultProvider # "" /\ providers[defaultProvider] = 0) =>
                   cres'[t] = [p |-> 0, err |-> "unsupported"]
             /\ (defaultProvider # "" /\ providers[defaultProvider] # 0) =>
                   cres'[t] = [p |-> providers[defaultProvider], err |-> ""]]_vars

\* The configured default "openai" has no credential and no entry while
\* another adapter is registered: the operation failed with
\* ErrUnsupportedProvider and called no adapter.
C17_Witness ==
    \E t \in Callers :
       /\ cpc[t] = "routed" /\ cres[t] = [p |-> 0, err |-> "unsupported"]
       /\ defaultProvider = "openai" /\ "openai" \notin env
       /\ Registered("anthropic")

\* C19: for an identifier with at least one "/", parseProviderModel returns as
\* provider what stands before the first "/" and as model all that stands after
\* it (further "/" stay in the model); for an identifier without "/" it returns
\* an error.
C19_SplitAtFirstSlash ==
    parts # NotParsed =>
       IF \E i \in 1..Len(providerModel) : providerModel[i] = Slash
       THEN /\ parts.err = ""
            /\ \A j \in 1..Len(parts.provider) : parts.provider[j] # Slash
            /\ parts.provider \o <<Slash>> \o parts.model = providerModel
       ELSE parts.err = "format"

\* "p/m/" was parsed: the provider is "p" and the model keeps the second "/".
C19_Witness ==
    /\ providerModel = <<"p", Slash, "m", Slash>>
    /\ parts = [provider |-> <<"p">>, model |-> <<"m", Slash>>, err |-> ""]

\* C20: a GenerateCompletion / GenerateCompletionStream call whose identifier
\* has no "/" fails with the malformed-identifier error and touches nothing: it
\* returns at once without resolving or constructing a provider, calls no
\* adapter, starts no decode or relay task, and leaves the registry, the
\* default provider and the lock as they were.
C20_MalformedTouchesNothing ==
    [][\A t \in Callers :
          (cpc[t] = "idle" /\ cid'[t] \in CallIds /\ Index(cid'[t]) = 0) =>
             /\ cpc'[t] = "returned"
             /\ cres'[t] = [p |-> 0, err |-> "format"]
             /\ UNCHANGED <<providers, defaultProvider, built, mu, env, streamVars>>]_vars

\* A call with the identifier "openai" (no "/") has returned the format error
\* although the provider "openai" is registered.
C20_Witness ==
    \E t \in Callers :
       /\ cid[t] = <<"openai">> /\ cpc[t] = "returned" /\ cres[t] = [p |-> 0, err |-> "format"]
       /\ Registered("openai")

\* The chunks an adapter's loop produces for the units q, read in order from
\* the locals acc and text.
RECURSIVE Produced(_, _, _, _)
Produced(a, q, acc, text) ==
    IF q = <<>> THEN <<>>
    ELSE LET r == Decode(a, Head(q), acc, text)
         IN  (IF r.emit THEN <<r.chunk>> ELSE <<>>)
                \o (IF r.stop THEN <<>> ELSE Produced(a, Tail(q), r.acc, r.text))

\* C21: the decode loop never drops or overwrites a chunk when the consumer is
\* slow: every chunk the loop produced for the units it read is received or
\* still waiting in its send, the caller has received a prefix of them and at
\* most two are on their way (one in the loop's send, one in the relay), and a
\* chunk waiting in a send is eventually received by a caller that keeps
\* reading.
C21_BackPressure ==
    /\ [](/\ Emitted = Produced(adapter, fed, ZeroUsage, <<>>)
          /\ Len(debugStream) <= Len(Emitted)
          /\ Len(Emitted) - Len(debugStream) <= 2
          /\ \A i \in 1..Len(debugStream) : debugStream[i] = Emitted[i])
    /\ (spc = "send") ~> (spc # "send")
    /\ (dpc = "send") ~> (dpc # "send")

\* The producer is ahead of the caller by two chunks: one waits in the decode
\* loop's send while the relay waits in its own send.
C21_Witness ==
    /\ spc = "send" /\ dpc = "send"
    /\ Len(Emitted) = 3 /\ Len(debugStream) = 1

\* The transport reported the cancellation (or the passed deadline) to the
\* decode loop: its last read returned an error that is not the end of the
\* stream.
CancelObserved == fed # <<>> /\ fed[Len(fed)].k \in {"readerr", "itererr"}

\* C22: once the transport has reported the cancellation to the decode loop,
\* the loop terminates: it emits one final error chunk, returns and closes the
\* stream, and the decode task is not left behind.
C22_CancelTerminates ==
    CancelObserved ~> (spc = "closed" /\ recv # <<>> /\ Last(recv).Error = "read")

\* C23: resolution of two distinct unregistered provider names proceeds in
\* parallel: while one caller is constructing the adapter for one name,
\* another caller that resolves a different constructible name can enter
\* initializeProvider and go on to construct its adapter.
C23_ParallelConstruction ==
    \A t, u \in Callers :
        (/\ cpc[t] = "construct"
         /\ cpc[u] = "initLock"
         /\ cname[u] # cname[t]
         /\ cname[u] \in Known
         /\ ~Registered(cname[u])
         /\ CredentialPresent(cname[u]))
            => ENABLED InitializeProvider(u)

\* C24: across NewClient registration, resolve, dispatch and Close the registry
\* only grows: in every step an entry that exists keeps its adapter (it is
\* neither replaced nor removed), and no name ever has a second adapter
\* constructed for it.
C24_RegistryOnlyGrows ==
    [][\A n \in Names :
          /\ providers[n] # 0 => providers'[n] = providers[n]
          /\ built'[n] <= 1]_vars

\* An entry outlived a completed Close and a later resolve of its name
\* returned the adapter that was registered.
C24_Witness ==
    \E t, u \in Callers :
        /\ cpc[t] = "closed"
        /\ cpc[u] = "returned" /\ cname[u] = "openai"
        /\ cres[u].p # 0 /\ cres[u].p = providers["openai"]

\* C25: a resolve that cannot construct its provider (unknown name, absent
\* credential, failing constructor) returns an error and leaves the registry,
\* the default provider, the count of constructed adapters and the lock as
\* they were before the call: the entries and the default are unchanged and
\* c.mu is free again.
C25_FailedResolveChangesNothing ==
    [][\A t \in Callers :
          (/\ cpc[t] \in {"initLock", "construct"}
           /\ cpc'[t] = "returned"
           /\ cres'[t].err \in {"unsupported", "initialize"})
              => /\ cres'[t].p = 0
                 /\ providers' = providers
                 /\ defaultProvider' = defaultProvider
                 /\ built' = built
                 /\ mu'.writer = 0 /\ mu'.readers = mu.readers]_vars

\* A resolve of googlegemini failed in the constructor and a later resolve of
\* the same name constructed and registered the adapter.
C25_Witness ==
    \E t, u \in Callers :
        /\ cpc[t] = "returned" /\ cres[t].err = "initialize"
        /\ cname[t] = "googlegemini" /\ CredentialPresent("googlegemini")
        /\ cpc[u] = "setDefault" /\ cname[u] = "googlegemini"
        /\ providers["googlegemini"] = 1

\* C26: an error GenerateCompletion returns that comes from the resolution of
\* the provider or from the adapter's generate names, in the messages of its
\* chain, the provider the call was dispatched to.
C26_ErrorNamesProvider ==
    (/\ gpc = "returned" /\ ~ret.ok
     /\ ret.from \in {"resolve", "adapter"}
     /\ cname[TheCall] # "")
        => cname[TheCall] \in ret.names

\* C27: a response GenerateCompletion returns without error carries in its
\* Provider field the provider part of the identifier it was dispatched with.
C27_ResponseNamesProvider ==
    (gpc = "returned" /\ ret.ok)
        => ret.Provider = NameOf(parseProviderModel(cid[TheCall]).provider)

\* C29: a finished call of an adapter's synchronous generate has sent exactly
\* one request to the backend, whether it succeeded or failed.
C29_OneRequestPerGenerate ==
    (gpc = "returned" /\ ret.from # "parse" /\ ret.from # "resolve") => requests = 1

\* The accumulators a decode loop holds after it read the units q, starting
\* from acc and text.
RECURSIVE Locals(_, _, _, _)
Locals(a, q, acc, text) ==
    IF q = <<>> THEN [acc |-> acc, text |-> text]
    ELSE LET r == Decode(a, Head(q), acc, text)
         IN  IF r.stop THEN [acc |-> r.acc, text |-> r.text]
             ELSE Locals(a, Tail(q), r.acc, r.text)

\* C28: two streams open at the same time on one adapter are independent:
\* under every interleaving of their loops, the chunks of each stream, the
\* text it accumulated and the usage a consumer reads through its chunks are
\* those its own backend units produce, whatever the other stream read.
C28_StreamsIndependent ==
    \A s \in Streams :
        /\ sout[s] = Produced(adapter, sfed[s], ZeroUsage, <<>>)
        /\ sacc[s] = Locals(adapter, sfed[s], ZeroUsage, <<>>).acc
        /\ stext[s] = Locals(adapter, sfed[s], ZeroUsage, <<>>).text

\* Both Anthropic streams are open, each has accumulated a text and a usage
\* of its own, and one of them is sending its final chunk.
C28_Witness ==
    /\ adapter = "anthropic"
    /\ stext[1] = <<"a">> /\ stext[2] = <<"b">>
    /\ sacc[1].PromptTokens = 3 /\ sacc[2].PromptTokens = 0
    /\ spos[1] = "read" /\ spos[2] = "sendlast"

\* C30: a log call made while the logger's level is DisabledLevel writes
\* nothing, whatever its severity; a call made at another level L writes
\* exactly when its severity is L or higher.
C30_LevelFilters ==
    \A i \in 1..Len(logCalls) :
        logCalls[i].written <=>
            (logCalls[i].level # DisabledLevel /\ logCalls[i].severity >= logCalls[i].level)

\* A unit of adapter a has the text field of its schema (possibly empty).
CarriesText(a, ev) ==
    CASE a = "openai" -> ev.k = "json" /\ ev.choices = "obj" /\ ev.delta /\ ev.hasContent
      [] a = "anthropic" -> ev.k = "json" /\ ev.type = "content_block_delta" /\ ev.hasField
      [] a = "ollama" -> ev.k = "json" /\ ev.hasResponse
      [] OTHER -> ev.k = "item" /\ ev.parts = "text"

\* The chunks the loop emitted for the i-th unit it read.
ChunksFor(i) ==
    Len(Produced(adapter, SubSeq(fed, 1, i), ZeroUsage, <<>>))
        - Len(Produced(adapter, SubSeq(fed, 1, i - 1), ZeroUsage, <<>>))

\* C31: every unit the loop read that carries a text delta or the backend's
\* terminal signal, the terminal signal without a text field included, led
\* to exactly one emitted chunk.
C31_OneChunkPerUnit ==
    \A i \in 1..Len(fed) :
        (CarriesText(adapter, fed[i]) \/ DoneSignal(adapter, fed[i])) => ChunksFor(i) = 1

\* A payload that is valid JSON of the adapter's schema but lacks the field
\* the loop expects next: an OpenAI choice without a delta object, an
\* Anthropic content_block_delta without delta.text, an Ollama object without
\* a response string.
LacksField(a, ev) ==
    CASE a = "openai" -> ev.k = "json" /\ ev.choices = "obj" /\ ~ev.delta
      [] a = "anthropic" -> ev.k = "json" /\ ev.type = "content_block_delta" /\ ~ev.hasField
      [] a = "ollama" -> ev.k = "json" /\ ~ev.hasResponse
      [] OTHER -> FALSE

\* C32: a payload that is valid JSON but lacks an expected field is a no-op:
\* the loop emits no chunk for it, in particular no error chunk, and goes on
\* to read the next unit.
C32_MissingFieldIsNoOp ==
    \A i \in 1..Len(fed) :
        LacksField(adapter, fed[i]) =>
            /\ ChunksFor(i) = 0
            /\ i = Len(fed) => spc = "read"

\* C33: framing noise (a blank line, a comment line, a line without the
\* "data: " prefix) read by a line-based loop produces no chunk of any kind.
C33_NoiseIsSkipped ==
    adapter \in {"openai", "anthropic", "ollama"} =>
        \A i \in 1..Len(fed) : fed[i].k = "noise" => ChunksFor(i) = 0

\* accumulatedUsage after the loop has read the first i units.
UsageAfter(i) == Locals(adapter, SubSeq(fed, 1, i), ZeroUsage, <<>>).acc

\* C34: the OpenAI loop's usage accumulator is changed only by the `usage`
\* object of OpenAI's own schema: an event that carries a `usageMetadata`
\* object (another provider's schema) leaves the accumulated usage as it was.
C34_OwnSchemaOnly ==
    adapter = "openai" =>
        \A i \in 1..Len(fed) :
            (fed[i].k = "json" /\ fed[i].hasUM /\ ~fed[i].hasUsage)
                => UsageAfter(i) = UsageAfter(i - 1)

\* C35: the Usage a chunk carries is a snapshot: in every step, what a
\* consumer reads through the Usage pointer of a chunk it has received stays
\* what it was.
C35_UsageIsSnapshot ==
    [][\A i \in 1..Len(recv) :
          recv[i].Usage # "nil" => Deref(recv[i])' = Deref(recv[i])]_vars

C37_NoTaskBlockedInSend ==
    /\ (spc = "send") ~> (spc # "send")
    /\ (dpc = "send") ~> (dpc # "send")

\* C38: no caller observes a partially inserted entry: a caller that is
\* inside a section that writes the map or the default holds c.mu
\* exclusively, the callers inside sections that read them are exactly the
\* holders of the read lock, no reader is inside while a writer is, every
\* entry in the map is an adapter whose constructor has returned, and every
\* step that changes the map or the default is taken with no reader inside
\* and by the holder of the write lock.
C38_NoPartialEntry ==
    /\ [](/\ mu.writer # 0 => mu.readers = 0
          /\ \A t \in Callers : cpc[t] \in {"construct", "setDefault"} => mu.writer = t
          /\ Cardinality({t \in Callers : cpc[t] \in {"closing", "routing"}}) = mu.readers
          /\ \A n \in Names : Registered(n) => providers[n] \in 1..built[n]
          /\ \A t \in Callers : cres[t].p # 0 => \E n \in Names : cres[t].p \in 1..built[n])
    /\ [][(providers' # providers \/ defaultProvider' # defaultProvider) =>
             /\ mu.readers = 0
             /\ mu.writer # 0 => cpc[mu.writer] \in {"construct", "setDefault"}]_vars

\* One caller holds the write lock and is constructing the adapter of a name
\* while another caller, resolving the same name, waits for the lock.
C38_Witness ==
    \E t, u \in Callers :
        /\ cpc[t] = "construct" /\ mu.writer = t
        /\ cpc[u] = "initLock" /\ cname[u] = cname[t]
        /\ ~Registered(cname[t])

\* C39: when the input of a line-based loop ends with a last unit that has no
\* newline after it, the loop discards the unit: it emits no chunk for it,
\* leaves its accumulated usage as it was and returns, which closes the
\* stream, whatever the unit was.
C39_UnterminatedTailDropped ==
    \A i \in 1..Len(fed) :
        (fed[i].k = "eof" /\ fed[i].tail # "none") =>
            /\ ChunksFor(i) = 0
            /\ UsageAfter(i) = UsageAfter(i - 1)
            /\ i = Len(fed)
            /\ LoopOver

\* An Ollama stream whose done line came without a newline: the consumer read
\* it to the end and its last chunk is not Done.
C39_Witness ==
    /\ adapter = "ollama" /\ Consumed
    /\ Len(fed) = 2 /\ fed[2].k = "eof" /\ fed[2].tail = "done"
    /\ Len(recv) = 1 /\ ~recv[1].Done /\ recv[1].Error = ""

====
